---------------------------- MODULE Spec2Model ----------------------------
(***************************************************************************)
(* Axis scaling of the line chart (widgets/linechart/axes/scale.go) and    *)
(* the rounding utilities it rests on (numbers/numbers.go).                *)
(*                                                                         *)
(* float64 values are modelled as exact rationals <<n, d>> in lowest       *)
(* terms with d > 0; Go ints are modelled as integers.                     *)
(***************************************************************************)
EXTENDS Integers, Sequences, FiniteSets, TLC

VARIABLES ys, xs, out

vars == <<ys, xs, out>>

---------------------------------------------------------------------------
(* Bounds of the model.                                                    *)

\* Data bounds of the Y axis are the values n / ValDen with |n| <= MaxNum.
MaxNum == 4

ValDen == 3

\* Values handed to YScale.ValueToPixel reach this far beyond MaxNum.
Beyond == 2

MaxGraphHeight == 2

MaxGraphWidth == 5

MaxPoints == 5

\* nonZeroDecimals and places range over -1 .. MaxDecimals.
MaxDecimals == 2

\* RoundToNonZeroPlaces is called on n / d with |n| <= MaxRoundNum.
MaxRoundNum == 12

\* The label functions are also called on Y scales of up to MaxTallHeight
\* rows, built from the data values -MaxTallVal, 0 and MaxTallVal.
MaxTallHeight == 10

MaxTallVal == 5

\* yLabels is called with a labelWidth of 0 .. MaxLabelWidth.
MaxLabelWidth == 5

\* The label functions are also called on X scales of up to MaxWideWidth
\* columns, for up to MaxPoints points, 2 * MaxPoints + 1 points and
\* MaxManyPoints points.
MaxWideWidth == 13

MaxManyPoints == 100

\* xLabels is called with custom labels for the indexes 0 .. MaxCustomIndex.
MaxCustomIndex == 1

\* The multiplier of RoundToNonZeroPlaces is computed for fractions with
\* fewer than MaxSmallExp leading zero decimals and places <= MaxBigPlaces.
MaxSmallExp == 20

MaxBigPlaces == 66

\* MinMax and MinMaxInts are called on sequences of at most MaxLen values.
MaxLen == 3

\* DegreesToRadians is called on -MaxDegrees .. MaxDegrees.
MaxDegrees == 725

\* RadiansToDegrees is called on n * Pi / 360 with |n| <= MaxHalfDegrees.
MaxHalfDegrees == 1450

---------------------------------------------------------------------------
(* Exact rational arithmetic standing for float64.                         *)

Abs(i) == IF i < 0 THEN -i ELSE i

RECURSIVE GCD(_, _)
GCD(a, b) == IF b = 0 THEN a ELSE GCD(b, a % b)

Rat(n, d) ==
    LET g == GCD(Abs(n), Abs(d))
        s == IF d < 0 THEN -1 ELSE 1
    IN  <<(s * n) \div g, (s * d) \div g>>

FromInt(i) == <<i, 1>>

Zero == FromInt(0)

\* Common factors are cancelled before the products are taken.
RAdd(a, b) ==
    LET g == GCD(a[2], b[2])
    IN  Rat(a[1] * (b[2] \div g) + b[1] * (a[2] \div g), (a[2] \div g) * b[2])

RNeg(a) == <<-a[1], a[2]>>

RSub(a, b) == RAdd(a, RNeg(b))

RMul(a, b) ==
    LET g1 == GCD(Abs(a[1]), b[2])
        g2 == GCD(Abs(b[1]), a[2])
    IN  Rat((a[1] \div g1) * (b[1] \div g2), (a[2] \div g2) * (b[2] \div g1))

\* b is not zero.
RDiv(a, b) == RMul(a, Rat(b[2], b[1]))

RLt(a, b) ==
    LET g == GCD(a[2], b[2])
    IN  a[1] * (b[2] \div g) < b[1] * (a[2] \div g)

RLe(a, b) ==
    LET g == GCD(a[2], b[2])
    IN  a[1] * (b[2] \div g) <= b[1] * (a[2] \div g)

RAbs(a) == <<Abs(a[1]), a[2]>>

\* math.Floor, math.Ceil and math.Trunc, as integers.
Floor(a) == a[1] \div a[2]

Ceil(a) == -((-a[1]) \div a[2])

Trunc(a) == IF a[1] < 0 THEN Ceil(a) ELSE Floor(a)

IsWhole(a) == a[2] = 1

---------------------------------------------------------------------------
(* numbers/numbers.go                                                      *)

Tenth == <<1, 10>>

Half == <<1, 2>>

\* zeroBeforeDecimal keeps only the part of f after the decimal point,
\* with the sign of f.
zeroBeforeDecimal(f) ==
    LET sign  == IF RLt(f, Zero) THEN -1 ELSE 1
        a     == IF RLt(f, Zero) THEN RMul(f, FromInt(-1)) ELSE f
        floor == FromInt(Floor(a))
    IN  RMul(RSub(a, floor), FromInt(sign))

\* The loop of multToNonZero: for v < 0.1 { v *= 10; mult *= 10 }.
RECURSIVE multToNonZeroLoop(_, _)
multToNonZeroLoop(v, mult) ==
    IF RLt(v, Tenth)
    THEN multToNonZeroLoop(RMul(v, FromInt(10)), mult * 10)
    ELSE mult

\* multToNonZero returns the multiplier that makes the first decimal place
\* of f non-zero. f is not zero.
multToNonZero(f) ==
    LET v == IF RLt(f, Zero) THEN RMul(f, FromInt(-1)) ELSE f
    IN  multToNonZeroLoop(v, 1)

\* The loop of placesToMult: for i := 0; i < places; i++ { mult *= 10 }.
RECURSIVE placesToMultLoop(_, _, _)
placesToMultLoop(i, places, mult) ==
    IF i < places THEN placesToMultLoop(i + 1, places, mult * 10) ELSE mult

\* A faulty variant of placesToMult: negative places are not made positive.
placesToMult_signed(places) == placesToMultLoop(0, places, 1)

placesToMult(places) ==
    LET p == IF places < 0 THEN places * (-1) ELSE places
    IN  placesToMultLoop(0, p, 1)

\* multToPlaces: for mult > 1 { mult /= 10; places++ }.
RECURSIVE multToPlacesLoop(_, _)
multToPlacesLoop(mult, places) ==
    IF mult > 1 THEN multToPlacesLoop(mult \div 10, places + 1) ELSE places

multToPlaces(mult) == multToPlacesLoop(mult, 0)

\* A faulty variant of RoundToNonZeroPlaces: rounds down instead of up.
RoundToNonZeroPlaces_floor(f, places) ==
    IF f = Zero THEN [f |-> Zero, places |-> 0]
    ELSE LET decOnly == zeroBeforeDecimal(f) IN
         IF decOnly = Zero THEN [f |-> f, places |-> 0]
         ELSE LET nzMult == multToNonZero(decOnly) IN
              IF places = 0 THEN [f |-> f, places |-> multToPlaces(nzMult)]
              ELSE LET plMult == placesToMult(places)
                       m      == FromInt(nzMult * plMult)
                   IN  [f      |-> RDiv(FromInt(Floor(RMul(f, m))), m),
                        places |-> multToPlaces(nzMult)]

\* RoundToNonZeroPlaces rounds f up so that it has at least the given number
\* of non-zero decimal places; returns the rounded float and the number of
\* leading decimal places that are zero.
RoundToNonZeroPlaces(f, places) ==
    IF f = Zero THEN [f |-> Zero, places |-> 0]
    ELSE LET decOnly == zeroBeforeDecimal(f) IN
         IF decOnly = Zero THEN [f |-> f, places |-> 0]
         ELSE LET nzMult == multToNonZero(decOnly) IN
              IF places = 0 THEN [f |-> f, places |-> multToPlaces(nzMult)]
              ELSE LET plMult == placesToMult(places)
                       m      == FromInt(nzMult * plMult)
                   IN  [f      |-> RDiv(FromInt(Ceil(RMul(f, m))), m),
                        places |-> multToPlaces(nzMult)]

\* The platform int: 64 bits in two's complement, held as its 8 bytes, the
\* least significant first. Arithmetic wraps around.
I64(n) == [i \in 1 .. 8 |-> IF i = 1 THEN n ELSE 0]

I64Negative(x) == x[8] >= 128

\* mult *= c for a small constant c: byte by byte, the last carry is lost.
RECURSIVE I64MulSmallFrom(_, _, _, _)
I64MulSmallFrom(x, c, i, carry) ==
    IF i > 8 THEN <<>>
    ELSE LET t == x[i] * c + carry
         IN  <<t % 256>> \o I64MulSmallFrom(x, c, i + 1, t \div 256)

I64MulSmall(x, c) == I64MulSmallFrom(x, c, 1, 0)

RECURSIVE I64AddFrom(_, _, _, _)
I64AddFrom(a, b, i, carry) ==
    IF i > 8 THEN <<>>
    ELSE LET t == a[i] + b[i] + carry
         IN  <<t % 256>> \o I64AddFrom(a, b, i + 1, t \div 256)

I64Add(a, b) == I64AddFrom(a, b, 1, 0)

\* x * 256^n.
I64ShiftBytes(x, n) == [i \in 1 .. 8 |-> IF i <= n THEN 0 ELSE x[i - n]]

\* a * b: the sum of b * a[i] * 256^(i-1).
RECURSIVE I64MulFrom(_, _, _)
I64MulFrom(a, b, i) ==
    IF i > 8 THEN I64(0)
    ELSE I64Add(I64ShiftBytes(I64MulSmall(b, a[i]), i - 1),
                I64MulFrom(a, b, i + 1))

I64Mul(a, b) == I64MulFrom(a, b, 1)

\* A fraction v with 10^-exp <= v < 10^(1-exp), exp >= 1, has exp - 1 leading
\* zero decimals: it is below 0.1 when exp >= 2, and v *= 10 lowers exp by
\* one.
\* The loop of multToNonZero on it: for v < 0.1 { v *= 10; mult *= 10 }.
\* (m is bound to the value of mult * 10 before the next round.)
RECURSIVE multToNonZeroInt64(_, _)
multToNonZeroInt64(exp, mult) ==
    IF exp >= 2
    THEN CHOOSE r \in { multToNonZeroInt64(exp - 1, m) :
                            m \in {I64MulSmall(mult, 10)} } : TRUE
    ELSE mult

\* The loop of placesToMult on the 64-bit int.
RECURSIVE placesToMultInt64(_, _, _)
placesToMultInt64(i, places, mult) ==
    IF i < places
    THEN CHOOSE r \in { placesToMultInt64(i + 1, places, m) :
                            m \in {I64MulSmall(mult, 10)} } : TRUE
    ELSE mult

\* nzMult * plMult of RoundToNonZeroPlaces(v, places) for such a fraction v
\* and places other than zero.
RoundMultiplier(exp, places) ==
    I64Mul(multToNonZeroInt64(exp, I64(1)),
           placesToMultInt64(0, Abs(places), I64(1)))

\* A faulty variant of Round: a value halfway between two integers is
\* truncated.
Round_tiesToZero(x) ==
    LET t == FromInt(Trunc(x))
    IN  IF RLt(Half, RAbs(RSub(x, t)))
        THEN RAdd(t, FromInt(IF RLt(x, Zero) THEN -1 ELSE 1))
        ELSE t

\* Round returns the nearest integer, rounding half away from zero.
Round(x) ==
    LET t == FromInt(Trunc(x))
    IN  IF RLe(Half, RAbs(RSub(x, t)))
        THEN RAdd(t, FromInt(IF RLt(x, Zero) THEN -1 ELSE 1))
        ELSE t

\* The conversion int(f) of a float without fractional part.
ToInt(f) == Trunc(f)

\* math.MaxFloat64 and its negation: <<1, 0>> compares above and <<-1, 0>>
\* below every rational of the model.
MaxFloat64 == <<1, 0>>

NegMaxFloat64 == <<-1, 0>>

\* The loop of MinMax over values[i..]: r is <<min, max>>.
RECURSIVE MinMaxLoop(_, _, _)
MinMaxLoop(values, i, r) ==
    IF i > Len(values) THEN r
    ELSE LET v    == values[i]
             min2 == IF RLt(v, r[1]) THEN v ELSE r[1]
             max2 == IF RLt(r[2], v) THEN v ELSE r[2]
         IN  MinMaxLoop(values, i + 1, <<min2, max2>>)

\* A faulty variant of MinMax: the first value is never looked at.
MinMax_skipFirst(values) ==
    IF Len(values) = 0 THEN <<Zero, Zero>>
    ELSE MinMaxLoop(values, 2, <<MaxFloat64, NegMaxFloat64>>)

\* MinMax returns the smallest and the largest value among the provided
\* values, (0, 0) if there are none.
MinMax(values) ==
    IF Len(values) = 0 THEN <<Zero, Zero>>
    ELSE MinMaxLoop(values, 1, <<MaxFloat64, NegMaxFloat64>>)

\* A value of the 64-bit int of the platform: [hi, lo] stands for
\* hi * 2^31 + lo with 0 <= lo < 2^31.
WInt(hi, lo) == [hi |-> hi, lo |-> lo]

WLt(a, b) == a.hi < b.hi \/ (a.hi = b.hi /\ a.lo < b.lo)

\* math.MaxInt32 = 2^31 - 1 and -1 * math.MaxInt32 = -2^31 + 1.
MaxInt32 == WInt(0, 2147483647)

NegMaxInt32 == WInt(-1, 1)

\* The loop of MinMaxInts over values[i..]: r is <<min, max>>.
RECURSIVE MinMaxIntsLoop(_, _, _)
MinMaxIntsLoop(values, i, r) ==
    IF i > Len(values) THEN r
    ELSE LET v    == values[i]
             min2 == IF WLt(v, r[1]) THEN v ELSE r[1]
             max2 == IF WLt(r[2], v) THEN v ELSE r[2]
         IN  MinMaxIntsLoop(values, i + 1, <<min2, max2>>)

\* MinMaxInts returns the smallest and the largest int value among the
\* provided values, (0, 0) if there are none.
MinMaxInts(values) ==
    IF Len(values) = 0 THEN <<WInt(0, 0), WInt(0, 0)>>
    ELSE MinMaxIntsLoop(values, 1, <<MaxInt32, NegMaxInt32>>)

\* The remainder of Go: it has the sign of a. b > 0.
GoRem(a, b) == IF a < 0 THEN -((-a) % b) ELSE a % b

\* Radians are held as multiples of math.Pi: c stands for c * Pi.

\* A faulty variant of DegreesToRadians: 360 degrees wrap to zero as well.
DegreesToRadians_wrap360(degrees) ==
    LET d == IF degrees >= 360 THEN GoRem(degrees, 360) ELSE degrees
    IN  RDiv(FromInt(d), FromInt(180))

\* DegreesToRadians converts degrees to the equivalent in radians.
DegreesToRadians(degrees) ==
    LET d == IF degrees > 360 THEN GoRem(degrees, 360) ELSE degrees
    IN  RDiv(FromInt(d), FromInt(180))

\* RadiansToDegrees converts radians to the equivalent in degrees.
RadiansToDegrees(radians) ==
    LET d == ToInt(Round(RMul(radians, FromInt(180))))
    IN  IF d < 0 THEN d + 360 ELSE d

---------------------------------------------------------------------------
(* widgets/linechart/axes: Value                                           *)

\* NewValue stores the raw value, the value rounded by RoundToNonZeroPlaces
\* and the precision used.
NewValue(v, nonZeroDecimals) ==
    [Value           |-> v,
     Rounded         |-> RoundToNonZeroPlaces(v, nonZeroDecimals).f,
     NonZeroDecimals |-> nonZeroDecimals]

\* Sub-cell rows and columns of one cell of the braille canvas.
RowMult == 4

ColMult == 2

---------------------------------------------------------------------------
(* widgets/linechart/axes/scale.go: helpers                                *)

\* The result of a call that fails: the zero value and an error.
Fail == [err |-> TRUE, val |-> 0]

Ok(v) == [err |-> FALSE, val |-> v]

FailF == [err |-> TRUE, val |-> Zero]

\* positionToY, given a position within the height, returns the Y
\* coordinate of the position. Positions grow up, coordinates grow down.
positionToY(pos, height) ==
    LET max == height - 1
    IN  IF pos < 0 \/ pos > max THEN Fail ELSE Ok(max - pos)

\* A faulty variant of yToPosition: the coordinate is not flipped.
yToPosition_noFlip(y, height) ==
    LET max == height - 1
    IN  IF y < 0 \/ y > max THEN Fail ELSE Ok(y)

\* yToPosition is the reverse of positionToY.
yToPosition(y, height) ==
    LET max == height - 1
    IN  IF y < 0 \/ y > max THEN Fail ELSE Ok(-1 * y + max)

---------------------------------------------------------------------------
(* widgets/linechart/axes/scale.go: YScale                                 *)

NilY == [valid |-> FALSE]

\* A faulty variant of NewYScale: a positive min is not clamped to zero.
NewYScale_noClamp(min, max, graphHeight, nonZeroDecimals) ==
    IF RLt(max, min) THEN [err |-> TRUE, s |-> NilY]
    ELSE IF graphHeight < 1 THEN [err |-> TRUE, s |-> NilY]
    ELSE LET brailleHeight == graphHeight * RowMult
             usablePixels  == brailleHeight - 1
             max2 == IF RLt(max, Zero) THEN Zero ELSE max
             diff == RSub(max2, min)
             step == NewValue(RDiv(diff, FromInt(usablePixels)), nonZeroDecimals)
         IN  [err |-> FALSE,
              s   |-> [valid         |-> TRUE,
                       Min           |-> NewValue(min, nonZeroDecimals),
                       Max           |-> NewValue(max2, nonZeroDecimals),
                       Step          |-> step,
                       GraphHeight   |-> graphHeight,
                       brailleHeight |-> brailleHeight]]

\* A faulty variant of NewYScale: a graphHeight of zero is accepted.
NewYScale_heightCheck(min, max, graphHeight, nonZeroDecimals) ==
    IF RLt(max, min) THEN [err |-> TRUE, s |-> NilY]
    ELSE IF graphHeight < 0 THEN [err |-> TRUE, s |-> NilY]
    ELSE LET brailleHeight == graphHeight * RowMult
             usablePixels  == brailleHeight - 1
             min2 == IF RLt(Zero, min) THEN Zero ELSE min
             max2 == IF RLt(max, Zero) THEN Zero ELSE max
             diff == RSub(max2, min2)
             step == NewValue(RDiv(diff, FromInt(usablePixels)), nonZeroDecimals)
         IN  [err |-> FALSE,
              s   |-> [valid         |-> TRUE,
                       Min           |-> NewValue(min2, nonZeroDecimals),
                       Max           |-> NewValue(max2, nonZeroDecimals),
                       Step          |-> step,
                       GraphHeight   |-> graphHeight,
                       brailleHeight |-> brailleHeight]]

NewYScale(min, max, graphHeight, nonZeroDecimals) ==
    IF RLt(max, min) THEN [err |-> TRUE, s |-> NilY]
    ELSE IF graphHeight < 1 THEN [err |-> TRUE, s |-> NilY]
    ELSE LET brailleHeight == graphHeight * RowMult
             usablePixels  == brailleHeight - 1
             min2 == IF RLt(Zero, min) THEN Zero ELSE min
             max2 == IF RLt(max, Zero) THEN Zero ELSE max
             diff == RSub(max2, min2)
             step == NewValue(RDiv(diff, FromInt(usablePixels)), nonZeroDecimals)
         IN  [err |-> FALSE,
              s   |-> [valid         |-> TRUE,
                       Min           |-> NewValue(min2, nonZeroDecimals),
                       Max           |-> NewValue(max2, nonZeroDecimals),
                       Step          |-> step,
                       GraphHeight   |-> graphHeight,
                       brailleHeight |-> brailleHeight]]

YPixelToValue(s, y) ==
    LET p == yToPosition(y, s.brailleHeight) IN
    IF p.err THEN FailF
    ELSE LET pos == p.val IN
         IF pos = 0 THEN Ok(s.Min.Rounded)
         ELSE IF pos = s.brailleHeight - 1 THEN Ok(s.Max.Rounded)
         ELSE LET v == RMul(FromInt(pos), s.Step.Rounded)
              IN  IF RLt(s.Min.Value, Zero)
                  THEN Ok(RSub(v, RMul(FromInt(-1), s.Min.Value)))
                  ELSE Ok(v)

\* A faulty variant of ValueToPixel: a negative minimum does not shift v.
YValueToPixel_noShift(s, v) ==
    IF s.Step.Rounded = Zero THEN Ok(0)
    ELSE LET pos == ToInt(Round(RDiv(v, s.Step.Rounded)))
         IN  positionToY(pos, s.brailleHeight)

YValueToPixel(s, v) ==
    IF s.Step.Rounded = Zero THEN Ok(0)
    ELSE LET v2  == IF RLt(s.Min.Value, Zero)
                    THEN RAdd(v, RMul(FromInt(-1), s.Min.Value))
                    ELSE v
             pos == ToInt(Round(RDiv(v2, s.Step.Rounded)))
         IN  positionToY(pos, s.brailleHeight)

\* A faulty variant of CellLabel: the cell row is taken for a sub-cell row.
YCellLabel_noRowMult(s, y) ==
    LET pos == yToPosition(y, s.GraphHeight) IN
    IF pos.err THEN [err |-> TRUE, val |-> NewValue(Zero, 0)]
    ELSE LET pixelY == positionToY(pos.val, s.brailleHeight) IN
         IF pixelY.err THEN [err |-> TRUE, val |-> NewValue(Zero, 0)]
         ELSE LET v == YPixelToValue(s, pixelY.val) IN
              IF v.err THEN [err |-> TRUE, val |-> NewValue(Zero, 0)]
              ELSE Ok(NewValue(v.val, s.Min.NonZeroDecimals))

\* CellLabel, given the Y coordinate of a cell, determines the value of the
\* label next to it: val is the Value, meaningful when err is FALSE.
YCellLabel(s, y) ==
    LET pos == yToPosition(y, s.GraphHeight) IN
    IF pos.err THEN [err |-> TRUE, val |-> NewValue(Zero, 0)]
    ELSE LET pixelY == positionToY(pos.val * RowMult, s.brailleHeight) IN
         IF pixelY.err THEN [err |-> TRUE, val |-> NewValue(Zero, 0)]
         ELSE LET v == YPixelToValue(s, pixelY.val) IN
              IF v.err THEN [err |-> TRUE, val |-> NewValue(Zero, 0)]
              ELSE Ok(NewValue(v.val, s.Min.NonZeroDecimals))

---------------------------------------------------------------------------
(* widgets/linechart/axes/scale.go: XScale                                 *)

NilX == [valid |-> FALSE]

\* Integer division of Go: truncates toward zero. b > 0.
GoDiv(a, b) == IF a < 0 THEN -((-a) \div b) ELSE a \div b

\* A faulty variant of NewXScale: a negative max is not clamped to zero.
NewXScale_noClamp(numPoints, graphWidth, nonZeroDecimals) ==
    IF numPoints < 0 THEN [err |-> TRUE, s |-> NilX]
    ELSE IF graphWidth < 1 THEN [err |-> TRUE, s |-> NilX]
    ELSE LET brailleWidth == graphWidth * ColMult
             usablePixels == brailleWidth - 1
             min  == Zero
             max  == FromInt(numPoints - 1)
             diff == RSub(max, min)
             step == NewValue(RDiv(diff, FromInt(usablePixels)), nonZeroDecimals)
         IN  [err |-> FALSE,
              s   |-> [valid        |-> TRUE,
                       Min          |-> NewValue(min, nonZeroDecimals),
                       Max          |-> NewValue(max, nonZeroDecimals),
                       Step         |-> step,
                       GraphWidth   |-> graphWidth,
                       brailleWidth |-> brailleWidth]]

NewXScale(numPoints, graphWidth, nonZeroDecimals) ==
    IF numPoints < 0 THEN [err |-> TRUE, s |-> NilX]
    ELSE IF graphWidth < 1 THEN [err |-> TRUE, s |-> NilX]
    ELSE LET brailleWidth == graphWidth * ColMult
             usablePixels == brailleWidth - 1
             min  == Zero
             max0 == FromInt(numPoints - 1)
             max  == IF RLt(max0, Zero) THEN Zero ELSE max0
             diff == RSub(max, min)
             step == NewValue(RDiv(diff, FromInt(usablePixels)), nonZeroDecimals)
         IN  [err |-> FALSE,
              s   |-> [valid        |-> TRUE,
                       Min          |-> NewValue(min, nonZeroDecimals),
                       Max          |-> NewValue(max, nonZeroDecimals),
                       Step         |-> step,
                       GraphWidth   |-> graphWidth,
                       brailleWidth |-> brailleWidth]]

XPixelToValue(s, x) ==
    IF x < 0 \/ x >= s.brailleWidth THEN FailF
    ELSE IF x = 0 THEN Ok(s.Min.Rounded)
    ELSE IF x = s.brailleWidth - 1 THEN Ok(s.Max.Rounded)
    ELSE Ok(RMul(FromInt(x), s.Step.Rounded))

\* A faulty variant of ValueToPixel: the degenerate step is tested before
\* the bounds.
XValueToPixel_stepFirst(s, v) ==
    LET fv == FromInt(v) IN
    IF s.Step.Rounded = Zero THEN Ok(0)
    ELSE IF RLt(fv, s.Min.Value) \/ RLt(s.Max.Rounded, fv) THEN Fail
    ELSE Ok(ToInt(Round(RDiv(fv, s.Step.Rounded))))

XValueToPixel(s, v) ==
    LET fv == FromInt(v) IN
    IF RLt(fv, s.Min.Value) \/ RLt(s.Max.Rounded, fv) THEN Fail
    ELSE IF s.Step.Rounded = Zero THEN Ok(0)
    ELSE Ok(ToInt(Round(RDiv(fv, s.Step.Rounded))))

\* A faulty variant of ValueToCell: the sub-cell column is taken for the cell.
XValueToCell_noDiv(s, v) ==
    LET p == XValueToPixel(s, v) IN
    IF p.err THEN Fail ELSE Ok(p.val)

XValueToCell(s, v) ==
    LET p == XValueToPixel(s, v) IN
    IF p.err THEN Fail ELSE Ok(GoDiv(p.val, ColMult))

\* A faulty variant of CellLabel: the value is not rounded to an integer.
XCellLabel_noRound(s, x) ==
    LET v == XPixelToValue(s, x * ColMult) IN
    IF v.err THEN [err |-> TRUE, val |-> NewValue(Zero, 0)]
    ELSE Ok(NewValue(v.val, s.Min.NonZeroDecimals))

\* The label of a cell: val is the Value, meaningful when err is FALSE.
XCellLabel(s, x) ==
    LET v == XPixelToValue(s, x * ColMult) IN
    IF v.err THEN [err |-> TRUE, val |-> NewValue(Zero, 0)]
    ELSE Ok(NewValue(Round(v.val), s.Min.NonZeroDecimals))

---------------------------------------------------------------------------
(* widgets/linechart/axes: the text of a Value and the labels of the axes. *)

\* A Value that holds a custom text instead of a number.
NewTextValue(text) == [text |-> text]

\* The number of decimal digits of a natural number.
RECURSIVE Digits(_)
Digits(n) == IF n < 10 THEN 1 ELSE 1 + Digits(n \div 10)

\* The zero decimal places that rounding found in the Value.
ZeroDecimals(v) == RoundToNonZeroPlaces(v.Value, v.NonZeroDecimals).places

\* The text of a numeric Value: the decimal numeral of Rounded, without
\* decimals when Rounded is an integer and with NonZeroDecimals plus
\* ZeroDecimals decimals otherwise. Held as the number and its decimals.
ValueText(v) ==
    [num      |-> v.Rounded,
     decimals |-> IF IsWhole(v.Rounded) THEN 0
                  ELSE v.NonZeroDecimals + ZeroDecimals(v)]

\* The length of that text: sign, integer digits, point and decimals.
ValueTextLen(v) ==
    LET len(t) ==
          LET sign == IF RLt(t.num, Zero) THEN 1 ELSE 0
              int  == Digits(Abs(Trunc(t.num)))
          IN  IF t.decimals = 0 THEN sign + int
              ELSE sign + int + 1 + t.decimals
    IN  len(ValueText(v))

\* A label: its Value, numeric or text, and its position on the canvas.
Label(value, isText, x, y) ==
    [Value |-> value, isText |-> isText, Pos |-> [X |-> x, Y |-> y]]

LabelTextLen(l) ==
    IF l.isText THEN Len(l.Value.text) ELSE ValueTextLen(l.Value)

\* The column where a text starts when aligned to the right of a width; a
\* text longer than the width starts at column 0 and is trimmed.
AlignRight(width, textLen) ==
    width - (IF textLen < width THEN textLen ELSE width)

\* Rows between two labels of the Y axis.
labelSpacing == 4

\* rowLabel returns the label of the row y, aligned right in labelWidth.
rowLabel(s, y, labelWidth) ==
    LET aligned(v) ==
          Label(v, FALSE, AlignRight(labelWidth, ValueTextLen(v)), y)
    IN  aligned(YCellLabel(s, y).val)

\* The rows graphHeight-1, graphHeight-1-labelSpacing, .. down to 0, each
\* labelled once per distinct text.
RECURSIVE yLabelsLoop(_, _, _, _)
yLabelsLoop(s, labelWidth, y, labels) ==
    IF y < 0 THEN labels
    ELSE LET unlessSeen(label) ==
               IF \E i \in 1 .. Len(labels) :
                      ValueText(labels[i].Value) = ValueText(label.Value)
               THEN labels
               ELSE Append(labels, label)
         IN  yLabelsLoop(s, labelWidth, y - labelSpacing,
                         unlessSeen(rowLabel(s, y, labelWidth)))

\* yLabels returns the labels placed next to the Y axis, bottom row first.
\* With data (a bound other than zero) there are at least two labels, the
\* second one on the top row when the spacing left room for one only.
yLabels(s, labelWidth) ==
    IF s.GraphHeight < 2 \/ labelWidth < 1 THEN [err |-> TRUE, labels |-> <<>>]
    ELSE LET haveData == s.Min.Rounded # Zero \/ s.Max.Rounded # Zero
             twoAtLeast(labels) ==
               IF Len(labels) < 2 /\ haveData
               THEN Append(labels, rowLabel(s, 0, labelWidth))
               ELSE labels
         IN  [err    |-> FALSE,
              labels |-> twoAtLeast(yLabelsLoop(s, labelWidth,
                                                s.GraphHeight - 1, <<>>))]

\* Free cells between two labels of the X axis.
minSpacing == 3

\* colLabel returns the label that starts at the relative column cur, the
\* custom text when there is one for its value; none when the text does not
\* fit in the columns that remain. cur is the column after the label.
colLabel(s, graphZero, customLabels, cur) ==
    LET labelOf(v) ==
          IF ToInt(v.Value) \in DOMAIN customLabels
          THEN Label(NewTextValue(customLabels[ToInt(v.Value)]), TRUE,
                     cur + graphZero.X, graphZero.Y + 2)
          ELSE Label(v, FALSE, cur + graphZero.X, graphZero.Y + 2)
        fit(label, len) ==
          IF len > s.GraphWidth - cur
          THEN [none |-> TRUE, label |-> label, cur |-> cur]
          ELSE [none |-> FALSE, label |-> label, cur |-> cur + len]
        place(label) == fit(label, LabelTextLen(label))
    IN  place(labelOf(XCellLabel(s, cur).val))

\* Greedy placement from the left: a label, then a skip to the cell of the
\* next index and of minSpacing cells at least, while labels fit and there
\* are indexes left.
RECURSIVE xLabelsLoop(_, _, _, _, _, _)
xLabelsLoop(s, graphZero, customLabels, cur, next, res) ==
    LET skipTo(nextCell, from) ==
          IF nextCell - from < minSpacing THEN minSpacing ELSE nextCell - from
        after(c, skip) ==
          IF s.GraphWidth - c.cur <= skip THEN Append(res, c.label)
          ELSE xLabelsLoop(s, graphZero, customLabels, c.cur + skip,
                           next + 1, Append(res, c.label))
        placed(c) ==
          IF c.none THEN res
          ELSE IF next + 1 > ToInt(s.Max.Value) THEN Append(res, c.label)
          ELSE after(c, skipTo(XValueToCell(s, next + 1).val, c.cur))
    IN  IF Len(res) > ToInt(s.Max.Value) THEN res
        ELSE placed(colLabel(s, graphZero, customLabels, cur))

\* xLabels returns the labels placed under the X axis, in increasing order.
xLabels(s, graphZero, customLabels) ==
    [err |-> FALSE,
     labels |-> xLabelsLoop(s, graphZero, customLabels, 0, 0, <<>>)]

---------------------------------------------------------------------------
(* The state: the scale of a redraw and the outcome of the last call.      *)

NoCall == [op |-> "none"]

Init ==
    /\ ys = NilY
    /\ xs = NilX
    /\ out = NoCall

---------------------------------------------------------------------------
(* The calls a chart makes on the Y scale.                                 *)

YVals == { Rat(n, ValDen) : n \in -MaxNum .. MaxNum }

QueryVals == { Rat(n, ValDen) : n \in -(MaxNum + Beyond) .. (MaxNum + Beyond) }

GraphHeights == 0 .. MaxGraphHeight

Decimals == -1 .. MaxDecimals

YPixels == -1 .. (MaxGraphHeight * RowMult)

\* A redraw constructs its scale first; the scale is immutable afterwards.
\* The data values and heights of the taller graphs, whose scales round to
\* nonZeroDecimals places.
TallVals == { FromInt(-MaxTallVal), Zero, FromInt(MaxTallVal) }

TallHeights == 1 .. MaxTallHeight

nonZeroDecimals == 2

CallNewYScale ==
    /\ out = NoCall
    /\ \E call \in (YVals \X YVals \X GraphHeights \X Decimals)
                  \cup (TallVals \X TallVals \X TallHeights \X {nonZeroDecimals}) :
        LET r == NewYScale(call[1], call[2], call[3], call[4]) IN
        /\ ys' = r.s
        /\ out' = [op |-> "NewYScale", min |-> call[1], max |-> call[2],
                   graphHeight |-> call[3], nonZeroDecimals |-> call[4],
                   err |-> r.err]
        /\ UNCHANGED xs

CallYPixelToValue ==
    /\ ys.valid
    /\ \E y \in YPixels :
        LET r == YPixelToValue(ys, y) IN
        out' = [op |-> "YPixelToValue", y |-> y, err |-> r.err, val |-> r.val]
    /\ UNCHANGED <<ys, xs>>

\* ValueToPixel of a value of the caller's choice (fromY = -1), or of the
\* value that PixelToValue has just returned for the row fromY.
CallYValueToPixel ==
    /\ ys.valid
    /\ \/ \E v \in QueryVals :
            LET r == YValueToPixel(ys, v) IN
            out' = [op |-> "YValueToPixel", v |-> v, fromY |-> -1,
                    err |-> r.err, val |-> r.val]
       \/ /\ out.op = "YPixelToValue"
          /\ ~out.err
          /\ LET r == YValueToPixel(ys, out.val) IN
             out' = [op |-> "YValueToPixel", v |-> out.val, fromY |-> out.y,
                     err |-> r.err, val |-> r.val]
    /\ UNCHANGED <<ys, xs>>

YCells == -1 .. MaxTallHeight

CallYCellLabel ==
    /\ ys.valid
    /\ \E y \in YCells :
        LET r == YCellLabel(ys, y) IN
        out' = [op |-> "YCellLabel", y |-> y, err |-> r.err, val |-> r.val]
    /\ UNCHANGED <<ys, xs>>

---------------------------------------------------------------------------
(* The calls a chart makes on the X scale.                                 *)

NumPoints == -1 .. MaxPoints

GraphWidths == 0 .. MaxGraphWidth

XPixels == -1 .. (MaxGraphWidth * ColMult)

XValues == -1 .. (MaxPoints + 1)

XCells == -1 .. MaxGraphWidth

\* The point counts and widths of the wider graphs, whose scales round to
\* nonZeroDecimals places.
WidePoints == (0 .. MaxPoints) \cup {2 * MaxPoints + 1, MaxManyPoints}

WideWidths == 1 .. MaxWideWidth

CallNewXScale ==
    /\ out = NoCall
    /\ \E call \in (NumPoints \X GraphWidths \X Decimals)
                  \cup (WidePoints \X WideWidths \X {nonZeroDecimals}) :
        LET r == NewXScale(call[1], call[2], call[3]) IN
        /\ xs' = r.s
        /\ out' = [op |-> "NewXScale", numPoints |-> call[1],
                   graphWidth |-> call[2], nonZeroDecimals |-> call[3],
                   err |-> r.err]
        /\ UNCHANGED ys

CallXPixelToValue ==
    /\ xs.valid
    /\ \E x \in XPixels :
        LET r == XPixelToValue(xs, x) IN
        out' = [op |-> "XPixelToValue", x |-> x, err |-> r.err, val |-> r.val]
    /\ UNCHANGED <<ys, xs>>

CallXValueToPixel ==
    /\ xs.valid
    /\ \E v \in XValues :
        LET r == XValueToPixel(xs, v) IN
        out' = [op |-> "XValueToPixel", v |-> v, err |-> r.err, val |-> r.val]
    /\ UNCHANGED <<ys, xs>>

CallXValueToCell ==
    /\ xs.valid
    /\ \E v \in XValues :
        LET r == XValueToCell(xs, v) IN
        out' = [op |-> "XValueToCell", v |-> v, err |-> r.err, val |-> r.val]
    /\ UNCHANGED <<ys, xs>>

CallXCellLabel ==
    /\ xs.valid
    /\ \E x \in XCells :
        LET r == XCellLabel(xs, x) IN
        out' = [op |-> "XCellLabel", x |-> x, err |-> r.err, val |-> r.val]
    /\ UNCHANGED <<ys, xs>>

---------------------------------------------------------------------------
(* The labels a chart asks for once it has built a scale.                  *)

LabelWidths == 0 .. MaxLabelWidth

\* yLabels on the scale just built from the data min .. max; the texts of
\* the labels need a positive number of decimals.
CallYLabels ==
    /\ out.op = "NewYScale" /\ ~out.err
    /\ ys.Min.NonZeroDecimals >= 1
    /\ \E labelWidth \in LabelWidths :
        LET returned(r) ==
              [op |-> "yLabels", min |-> out.min, max |-> out.max,
               labelWidth |-> labelWidth, err |-> r.err, labels |-> r.labels]
        IN  out' = returned(yLabels(ys, labelWidth))
    /\ UNCHANGED <<ys, xs>>

GraphZeros == { [X |-> 0, Y |-> 1], [X |-> 3, Y |-> 5] }

CustomTexts == { "a", "abcd", "a very very long custom label" }

\* The maps from some of the indexes 0 .. MaxCustomIndex to a custom text.
CustomLabels ==
    UNION { [D -> CustomTexts] : D \in SUBSET (0 .. MaxCustomIndex) }

\* xLabels on the scale just built for numPoints points.
CallXLabels ==
    /\ out.op = "NewXScale" /\ ~out.err
    /\ xs.Min.NonZeroDecimals >= 1
    /\ \E graphZero \in GraphZeros, customLabels \in CustomLabels :
        LET returned(r) ==
              [op |-> "xLabels", numPoints |-> out.numPoints,
               graphZero |-> graphZero, customLabels |-> customLabels,
               err |-> r.err, labels |-> r.labels]
        IN  out' = returned(xLabels(xs, graphZero, customLabels))
    /\ UNCHANGED <<ys, xs>>

---------------------------------------------------------------------------
(* Calls of the rounding utilities.                                        *)

RoundDens == {1, 2, 3, 7, 8, 16, 125, 1000}

RoundVals == { Rat(n, d) : n \in -MaxRoundNum .. MaxRoundNum, d \in RoundDens }

CallRoundToNonZeroPlaces ==
    /\ out = NoCall
    /\ \E f \in RoundVals, places \in Decimals :
        LET r == RoundToNonZeroPlaces(f, places) IN
        out' = [op |-> "RoundToNonZeroPlaces", f |-> f, places |-> places,
                rounded |-> r.f, zeroPlaces |-> r.places]
    /\ UNCHANGED <<ys, xs>>

\* RoundToNonZeroPlaces of a small fraction with many places, up to the
\* multiplier m it rounds with.
CallRoundMultiplier ==
    /\ out = NoCall
    /\ \E exp \in 1 .. MaxSmallExp,
          places \in (-MaxDecimals .. MaxBigPlaces) \ {0} :
        out' = [op |-> "RoundMultiplier", exp |-> exp, places |-> places,
                m |-> RoundMultiplier(exp, places)]
    /\ UNCHANGED <<ys, xs>>

RoundCallVals == RoundVals

CallRound ==
    /\ out = NoCall
    /\ \E x \in RoundCallVals :
        out' = [op |-> "Round", x |-> x, val |-> Round(x)]
    /\ UNCHANGED <<ys, xs>>

SeqsOf(S) == UNION { [1 .. n -> S] : n \in 0 .. MaxLen }

FloatSample == { Rat(-113, 10), Rat(-11, 10), Zero, Rat(11, 10), Rat(225, 10) }

\* Ints around zero and around the limits of the 32-bit range:
\* -2^31 - 1, -2^31, -2^31 + 1, -1, 0, 1, 2^31 - 1, 2^31, 2^31 + 5.
IntSample ==
    { WInt(-2, 2147483647), WInt(-1, 0), WInt(-1, 1), WInt(-1, 2147483647),
      WInt(0, 0), WInt(0, 1), WInt(0, 2147483647), WInt(1, 0), WInt(1, 5) }

CallMinMax ==
    /\ out = NoCall
    /\ \E values \in SeqsOf(FloatSample) :
        LET r == MinMax(values) IN
        out' = [op |-> "MinMax", values |-> values, min |-> r[1], max |-> r[2]]
    /\ UNCHANGED <<ys, xs>>

CallMinMaxInts ==
    /\ out = NoCall
    /\ \E values \in SeqsOf(IntSample) :
        LET r == MinMaxInts(values) IN
        out' = [op |-> "MinMaxInts", values |-> values,
                min |-> r[1], max |-> r[2]]
    /\ UNCHANGED <<ys, xs>>

CallDegreesToRadians ==
    /\ out = NoCall
    /\ \E degrees \in -MaxDegrees .. MaxDegrees :
        out' = [op |-> "DegreesToRadians", degrees |-> degrees,
                val |-> DegreesToRadians(degrees)]
    /\ UNCHANGED <<ys, xs>>

CallRadiansToDegrees ==
    /\ out = NoCall
    /\ \E n \in -MaxHalfDegrees .. MaxHalfDegrees :
        LET radians == Rat(n, 360) IN
        out' = [op |-> "RadiansToDegrees", radians |-> radians,
                val |-> RadiansToDegrees(radians)]
    /\ UNCHANGED <<ys, xs>>

---------------------------------------------------------------------------

Next ==
    \/ CallNewYScale
    \/ CallYPixelToValue
    \/ CallYValueToPixel
    \/ CallYCellLabel
    \/ CallNewXScale
    \/ CallXPixelToValue
    \/ CallXValueToPixel
    \/ CallXValueToCell
    \/ CallXCellLabel
    \/ CallYLabels
    \/ CallXLabels
    \/ CallRoundToNonZeroPlaces
    \/ CallRoundMultiplier
    \/ CallRound
    \/ CallMinMax
    \/ CallMinMaxInts
    \/ CallDegreesToRadians
    \/ CallRadiansToDegrees

Spec == Init /\ [][Next]_vars

---------------------------------------------------------------------------
(* Properties of the Y scale.                                              *)

\* The data interval handed to NewYScale, as the scale should hold it.
ClampedMin(min) == IF RLe(min, Zero) THEN min ELSE Zero

ClampedMax(max) == IF RLe(Zero, max) THEN max ELSE Zero

\* The step before rounding: the domain divided by the usable sub-cells.
RawStep(lo, hi, subCells) == RDiv(RSub(hi, lo), FromInt(subCells - 1))

\* C1: a successful NewYScale(min, max, ..) has Min.Value = min when
\* min <= 0 and 0 otherwise, Max.Value = max when max >= 0 and 0 otherwise;
\* so Min.Value <= 0 <= Max.Value, [Min.Value, Max.Value] contains
\* [min, max], Max.Value >= Min.Value and Step.Rounded >= 0.
C1_ZeroInclusion ==
    (out.op = "NewYScale" /\ ~out.err) =>
        /\ ys.valid
        /\ ys.Min.Value = ClampedMin(out.min)
        /\ ys.Max.Value = ClampedMax(out.max)
        /\ RLe(ys.Min.Value, Zero) /\ RLe(Zero, ys.Max.Value)
        /\ RLe(ys.Min.Value, out.min) /\ RLe(out.max, ys.Max.Value)
        /\ RLe(ys.Min.Value, ys.Max.Value)
        /\ RLe(Zero, ys.Step.Rounded)

\* NewYScale has clamped a strictly positive min to zero.
C1_Witness ==
    /\ out.op = "NewYScale" /\ ~out.err
    /\ RLt(Zero, out.min)
    /\ ys.Min.Value = Zero
    /\ RLt(Zero, ys.Step.Rounded)

\* C2: NewYScale fails, returning no scale, exactly when max < min or
\* graphHeight < 1; otherwise the scale has GraphHeight = graphHeight, the
\* sub-cell height graphHeight * RowMult and the Step built from
\* (Max.Value - Min.Value) / (sub-cell height - 1).
C2_NewYScaleErrors ==
    out.op = "NewYScale" =>
        /\ out.err <=> (RLt(out.max, out.min) \/ out.graphHeight < 1)
        /\ out.err => ~ys.valid
        /\ ~out.err =>
            /\ ys.valid
            /\ ys.GraphHeight = out.graphHeight
            /\ ys.brailleHeight = out.graphHeight * RowMult
            /\ ys.Step = NewValue(RawStep(ys.Min.Value, ys.Max.Value,
                                          out.graphHeight * RowMult),
                                  out.nonZeroDecimals)

\* NewYScale has rejected a graphHeight below one whose range was valid.
C2_Witness ==
    /\ out.op = "NewYScale" /\ out.err
    /\ out.graphHeight < 1
    /\ RLe(out.min, out.max)

\* An interior sub-cell row of the Y scale.
InteriorY(y) == 0 < y /\ y < ys.brailleHeight - 1

\* C3 as stated: on every valid Y scale, the flat one (min = max = 0)
\* included, ValueToPixel(PixelToValue(y)) succeeds and returns y for every
\* interior row y.
C3_RoundTripAnyScale ==
    (out.op = "YValueToPixel" /\ InteriorY(out.fromY)) =>
        (~out.err /\ out.val = out.fromY)

\* C3 amended: on every valid Y scale whose domain is not the single point
\* zero (Min.Value < Max.Value), ValueToPixel(PixelToValue(y)) succeeds and
\* returns y for every interior row y.
C3_RoundTrip ==
    (out.op = "YValueToPixel" /\ InteriorY(out.fromY)
        /\ RLt(ys.Min.Value, ys.Max.Value)) =>
        (~out.err /\ out.val = out.fromY)

\* An interior row of a scale with a negative minimum has made the round
\* trip.
C3_Witness ==
    /\ out.op = "YValueToPixel" /\ InteriorY(out.fromY)
    /\ RLt(ys.Min.Value, Zero) /\ RLt(Zero, ys.Max.Value)
    /\ ~out.err /\ out.val = out.fromY

\* The value of the sub-cell row at a position, 0 being the bottom row.
ValueAtPosition(s, position) ==
    IF position = 0 THEN s.Min.Rounded
    ELSE IF position = s.brailleHeight - 1 THEN s.Max.Rounded
    ELSE RSub(RMul(FromInt(position), s.Step.Rounded),
              IF RLt(s.Min.Value, Zero) THEN RAbs(s.Min.Value) ELSE Zero)

\* C4: PixelToValue(y) fails exactly when y < 0 or y > sub-cell height - 1;
\* otherwise, with position = (sub-cell height - 1) - y, it returns
\* Min.Rounded at position 0, Max.Rounded at the top position and
\* position * Step.Rounded, less |Min.Value| when Min.Value < 0, in between.
\* positionToY and yToPosition are inverses of each other on
\* [0, height - 1] and both fail outside it.
C4_PixelToValue ==
    /\ out.op = "YPixelToValue" =>
        /\ out.err <=> (out.y < 0 \/ out.y > ys.brailleHeight - 1)
        /\ ~out.err =>
              out.val = ValueAtPosition(ys, (ys.brailleHeight - 1) - out.y)
    /\ ys.valid =>
        \A h \in {ys.GraphHeight, ys.brailleHeight} : \A i \in -1 .. h :
            /\ positionToY(i, h).err <=> (i < 0 \/ i > h - 1)
            /\ yToPosition(i, h).err <=> (i < 0 \/ i > h - 1)
            /\ (0 <= i /\ i <= h - 1) =>
                /\ yToPosition(positionToY(i, h).val, h) = Ok(i)
                /\ positionToY(yToPosition(i, h).val, h) = Ok(i)

\* PixelToValue has returned the value of an interior row of a scale with
\* a negative minimum.
C4_Witness ==
    /\ out.op = "YPixelToValue" /\ ~out.err
    /\ InteriorY(out.y)
    /\ RLt(ys.Min.Value, Zero)
    /\ out.val # Zero

\* C5: ValueToPixel(v) fails for every v outside the domain of the scale
\* (v < Min.Value or v > Max.Value), on every valid Y scale.
C5_OutOfDomainFails ==
    (out.op = "YValueToPixel"
        /\ (RLt(out.v, ys.Min.Value) \/ RLt(ys.Max.Value, out.v))) => out.err

\* C6: the step is only rounded up (Step.Rounded is at least the domain
\* divided by the usable sub-cells), so a value of the domain is never drawn
\* outside the graph: on a Y scale ValueToPixel(v) succeeds within
\* [0, sub-cell height - 1] for Min.Value <= v <= Max.Value; on an X scale
\* ValueToPixel(v) succeeds within [0, sub-cell width - 1] for every integer
\* 0 <= v <= Max.Value, and ValueToCell(v) is that pixel divided by ColMult
\* and lies within [0, GraphWidth - 1].
C6_InDomainInGraph ==
    /\ ys.valid =>
          RLe(RawStep(ys.Min.Value, ys.Max.Value, ys.brailleHeight),
              ys.Step.Rounded)
    /\ (out.op = "YValueToPixel"
            /\ RLe(ys.Min.Value, out.v) /\ RLe(out.v, ys.Max.Value)) =>
          (~out.err /\ out.val \in 0 .. (ys.brailleHeight - 1))
    /\ xs.valid =>
          RLe(RawStep(Zero, xs.Max.Value, xs.brailleWidth), xs.Step.Rounded)
    /\ (out.op = "XValueToPixel"
            /\ 0 <= out.v /\ RLe(FromInt(out.v), xs.Max.Value)) =>
          (~out.err /\ out.val \in 0 .. (xs.brailleWidth - 1))
    /\ (out.op = "XValueToCell"
            /\ 0 <= out.v /\ RLe(FromInt(out.v), xs.Max.Value)) =>
          /\ ~out.err
          /\ out.val = XValueToPixel(xs, out.v).val \div ColMult
          /\ out.val \in 0 .. (xs.GraphWidth - 1)

\* ValueToPixel has drawn the maximum of a Y scale, whose step was rounded
\* up, on the top row.
C6_Witness ==
    /\ out.op = "YValueToPixel" /\ ~out.err
    /\ out.v = ys.Max.Value
    /\ RLt(Zero, ys.Max.Value)
    /\ RLt(ys.Step.Value, ys.Step.Rounded)
    /\ out.val = 0

---------------------------------------------------------------------------
(* Properties of the X scale.                                              *)

\* C7: NewXScale fails, returning no scale, exactly when numPoints < 0 or
\* graphWidth < 1; otherwise Min.Value = 0 and Max.Value = numPoints - 1,
\* which is 0 when numPoints <= 1, the sub-cell width is
\* graphWidth * ColMult and the Step is built from
\* Max.Value / (sub-cell width - 1).
C7_NewXScale ==
    out.op = "NewXScale" =>
        /\ out.err <=> (out.numPoints < 0 \/ out.graphWidth < 1)
        /\ out.err => ~xs.valid
        /\ ~out.err =>
            /\ xs.valid
            /\ xs.Min.Value = Zero
            /\ xs.Max.Value = (IF out.numPoints <= 1 THEN Zero
                               ELSE FromInt(out.numPoints - 1))
            /\ xs.GraphWidth = out.graphWidth
            /\ xs.brailleWidth = out.graphWidth * ColMult
            /\ xs.Step = NewValue(RDiv(xs.Max.Value,
                                       FromInt(out.graphWidth * ColMult - 1)),
                                  out.nonZeroDecimals)

\* NewXScale has built the scale of an empty series: its maximum is zero.
C7_Witness ==
    /\ out.op = "NewXScale" /\ ~out.err
    /\ out.numPoints = 0
    /\ xs.Max.Value = Zero
    /\ xs.Step.Rounded = Zero

\* The bounds check of XScale.ValueToPixel.
OutsideX(v) == RLt(FromInt(v), xs.Min.Value) \/ RLt(xs.Max.Rounded, FromInt(v))

\* C8: XScale.ValueToPixel(v) fails exactly when v < Min.Value or
\* v > Max.Rounded, also on a scale whose Step.Rounded is zero: there it
\* returns pixel 0 for v = 0 only and fails for every other v. ValueToCell
\* fails exactly when ValueToPixel fails.
C8_XValueToPixelErrors ==
    /\ out.op = "XValueToPixel" =>
        /\ out.err <=> OutsideX(out.v)
        /\ xs.Step.Rounded = Zero =>
              IF out.v = 0 THEN ~out.err /\ out.val = 0 ELSE out.err
    /\ out.op = "XValueToCell" =>
        /\ out.err <=> OutsideX(out.v)
        /\ out.err <=> XValueToPixel(xs, out.v).err

\* ValueToPixel has rejected a value other than zero on a scale whose step
\* is zero.
C8_Witness ==
    /\ out.op = "XValueToPixel"
    /\ xs.Step.Rounded = Zero
    /\ out.v > 0
    /\ out.err

\* The integer nearest to x, the farther from zero of the two when x lies
\* halfway between two integers.
NearestInt(x) ==
    CHOOSE n \in Floor(x) .. Ceil(x) :
        LET d == RAbs(RSub(x, FromInt(n))) IN
        \/ RLt(d, Half)
        \/ d = Half /\ Abs(n) * x[2] > Abs(x[1])

\* C9: XScale.CellLabel(x) succeeds exactly for 0 <= x < GraphWidth and
\* returns a Value whose raw and rounded numbers are the same integer, the
\* integer nearest to PixelToValue(x * ColMult) with ties away from zero,
\* built with the nonZeroDecimals of the scale. XScale.PixelToValue(p)
\* fails exactly when p < 0 or p >= sub-cell width, returns Min.Rounded at
\* p = 0, Max.Rounded at p = sub-cell width - 1 and p * Step.Rounded in
\* between.
C9_XCellLabel ==
    /\ out.op = "XCellLabel" =>
        /\ ~out.err <=> (0 <= out.x /\ out.x < xs.GraphWidth)
        /\ ~out.err =>
            /\ out.val.Value = out.val.Rounded
            /\ IsWhole(out.val.Value)
            /\ out.val.Value =
                 FromInt(NearestInt(XPixelToValue(xs, out.x * ColMult).val))
            /\ out.val.NonZeroDecimals = xs.Min.NonZeroDecimals
    /\ out.op = "XPixelToValue" =>
        /\ out.err <=> (out.x < 0 \/ out.x >= xs.brailleWidth)
        /\ ~out.err =>
              out.val = (IF out.x = 0 THEN xs.Min.Rounded
                         ELSE IF out.x = xs.brailleWidth - 1 THEN xs.Max.Rounded
                         ELSE RMul(FromInt(out.x), xs.Step.Rounded))

\* CellLabel has rounded the value of an interior cell, which is not an
\* integer, to an integer.
C9_Witness ==
    /\ out.op = "XCellLabel" /\ ~out.err
    /\ 0 < out.x
    /\ ~IsWhole(XPixelToValue(xs, out.x * ColMult).val)
    /\ IsWhole(out.val.Value)

---------------------------------------------------------------------------
(* Properties of the rounding utilities.                                   *)

RECURSIVE Pow10(_)
Pow10(n) == IF n <= 0 THEN 1 ELSE 10 * Pow10(n - 1)

\* The fractional part of |v|.
FracAbs(v) == RSub(RAbs(v), FromInt(Floor(RAbs(v))))

\* The number of leading zero decimal digits of a fractional part fr # 0:
\* the smallest k with fr * 10^k >= 0.1.
LeadingZeros(fr) ==
    CHOOSE k \in 0 .. 9 :
        /\ RLe(Tenth, RMul(fr, FromInt(Pow10(k))))
        /\ \A j \in 0 .. (k - 1) : RLt(RMul(fr, FromInt(Pow10(j))), Tenth)

\* The reference of C10 for RoundToNonZeroPlaces(v, p).
RoundReference(v, p) ==
    IF v = Zero THEN [f |-> Zero, places |-> 0]
    ELSE IF FracAbs(v) = Zero THEN [f |-> v, places |-> 0]
    ELSE LET k == LeadingZeros(FracAbs(v))
             m == FromInt(Pow10(k + Abs(p)))
         IN  IF p = 0 THEN [f |-> v, places |-> k]
             ELSE [f |-> RDiv(FromInt(Ceil(RMul(v, m))), m), places |-> k]

C11_Round ==
    out.op = "Round" =>
        LET t == FromInt(Trunc(out.x))
            sign == IF RLt(out.x, Zero) THEN -1 ELSE 1
        IN  /\ out.val = FromInt(NearestInt(out.x))
            /\ out.val = (IF RLt(RAbs(RSub(out.x, t)), Half) THEN t
                          ELSE RAdd(t, FromInt(sign)))
            /\ Round(RNeg(out.x)) = RNeg(out.val)

\* Round has rounded -2.5, halfway between two integers, to -3.
C11_Witness ==
    /\ out.op = "Round"
    /\ out.x = Rat(-5, 2)
    /\ out.val = FromInt(-3)

\* m is an element of values that no element of values is below (above).
IsMinimum(m, values) ==
    /\ \E i \in 1 .. Len(values) : values[i] = m
    /\ \A i \in 1 .. Len(values) : RLe(m, values[i])

IsMaximum(m, values) ==
    /\ \E i \in 1 .. Len(values) : values[i] = m
    /\ \A i \in 1 .. Len(values) : RLe(values[i], m)

IsMinimumInt(m, values) ==
    /\ \E i \in 1 .. Len(values) : values[i] = m
    /\ \A i \in 1 .. Len(values) : ~WLt(values[i], m)

IsMaximumInt(m, values) ==
    /\ \E i \in 1 .. Len(values) : values[i] = m
    /\ \A i \in 1 .. Len(values) : ~WLt(m, values[i])

\* The part of C12 about MinMax: (0, 0) for no values, otherwise the
\* minimum and the maximum of the values.
MinMaxIsTrue ==
    out.op = "MinMax" =>
        IF Len(out.values) = 0 THEN out.min = Zero /\ out.max = Zero
        ELSE IsMinimum(out.min, out.values) /\ IsMaximum(out.max, out.values)

\* C12: MinMax and MinMaxInts return (0, 0) for an empty sequence and the
\* true minimum and maximum of every non-empty one, MinMaxInts for every
\* value of the 64-bit int, those beyond the 32-bit range included.
C12_TrueMinMax ==
    /\ MinMaxIsTrue
    /\ out.op = "MinMaxInts" =>
        IF Len(out.values) = 0
        THEN out.min = WInt(0, 0) /\ out.max = WInt(0, 0)
        ELSE /\ IsMinimumInt(out.min, out.values)
             /\ IsMaximumInt(out.max, out.values)

\* C13 as stated: DegreesToRadians(d) = DegreesToRadians(d mod 360) =
\* ((d mod 360) / 180) * Pi with d mod 360 in [0, 360), for every integer d.
C13_WrapsEveryDegree ==
    out.op = "DegreesToRadians" =>
        /\ out.val = DegreesToRadians(out.degrees % 360)
        /\ out.val = Rat(out.degrees % 360, 180)

\* C13 amended: DegreesToRadians wraps its argument modulo 360 only when it
\* exceeds 360: for d > 360 the result is ((d mod 360) / 180) * Pi, that of
\* d mod 360; for d <= 360, 360 and the negative d included, it is
\* (d / 180) * Pi.
C13_WrapsAbove360 ==
    out.op = "DegreesToRadians" =>
        IF out.degrees > 360
        THEN /\ out.val = Rat(out.degrees % 360, 180)
             /\ out.val = DegreesToRadians(out.degrees % 360)
        ELSE out.val = Rat(out.degrees, 180)

\* DegreesToRadians has converted 361 degrees to the radians of 1 degree.
C13_Witness ==
    /\ out.op = "DegreesToRadians"
    /\ out.degrees = 361
    /\ out.val = Rat(1, 180)

\* C14: RadiansToDegrees(r) rounds r * 180 / Pi to the nearest degree, ties
\* away from zero, and for every negative r returns a d with 0 <= d < 360.
C14_NegativeNormalized ==
    out.op = "RadiansToDegrees" =>
        LET d == NearestInt(RMul(out.radians, FromInt(180))) IN
        IF RLt(out.radians, Zero)
        THEN /\ 0 <= out.val /\ out.val < 360
             /\ (out.val - d) % 360 = 0
        ELSE out.val = d

---------------------------------------------------------------------------
(* Properties of the labels.                                               *)

\* The part of C16 that holds: CellLabel(y) succeeds exactly for
\* 0 <= y <= GraphHeight - 1, its Value is built with the nonZeroDecimals
\* of the scale, and the label of the bottom row is Min.Rounded.
YCellLabelBottom ==
    out.op = "YCellLabel" =>
        /\ out.err <=> (out.y < 0 \/ out.y > ys.GraphHeight - 1)
        /\ ~out.err =>
            /\ out.val.NonZeroDecimals = ys.Min.NonZeroDecimals
            /\ out.val = NewValue(out.val.Value, ys.Min.NonZeroDecimals)
            /\ out.y = ys.GraphHeight - 1 => out.val.Value = ys.Min.Rounded

\* C16 as stated: CellLabel(GraphHeight - 1) has the value Min.Rounded and
\* CellLabel(0) has the value Max.Rounded on every valid Y scale;
\* CellLabel(y) succeeds exactly for y in [0, GraphHeight - 1] and rounds
\* with the nonZeroDecimals of the scale.
C16_BoundaryLabels ==
    /\ YCellLabelBottom
    /\ (out.op = "YCellLabel" /\ out.y = 0 /\ ~out.err) =>
          out.val.Value = ys.Max.Rounded

\* C16 amended: CellLabel(y) succeeds exactly for y in [0, GraphHeight - 1]
\* and rounds with the nonZeroDecimals of the scale; CellLabel(GraphHeight - 1)
\* has the value Min.Rounded; CellLabel(0) has the value of the lowest
\* sub-cell row of the top cell, at position (GraphHeight - 1) * RowMult:
\* Min.Rounded when GraphHeight = 1, otherwise that position times
\* Step.Rounded, less |Min.Value| when Min.Value < 0. This is below
\* Max.Value whenever the step was not rounded (Step.Rounded = Step.Value)
\* and the domain is not a single point.
C16_CellLabel ==
    /\ YCellLabelBottom
    /\ (out.op = "YCellLabel" /\ ~out.err) =>
          out.val.Value = ValueAtPosition(ys, (ys.GraphHeight - 1 - out.y) * RowMult)
    /\ (out.op = "YCellLabel" /\ out.y = 0 /\ ~out.err) =>
          /\ out.val.Value =
               (IF ys.GraphHeight = 1 THEN ys.Min.Rounded
                ELSE RSub(RMul(FromInt((ys.GraphHeight - 1) * RowMult),
                               ys.Step.Rounded),
                          IF RLt(ys.Min.Value, Zero) THEN RAbs(ys.Min.Value)
                          ELSE Zero))
          /\ (ys.Step.Rounded = ys.Step.Value
                /\ RLt(ys.Min.Value, ys.Max.Value)) =>
                RLt(out.val.Value, ys.Max.Value)

\* CellLabel has given the top row of the scale of 0 .. 5 on two rows the
\* label 2.88, which is not the maximum.
C16_Witness ==
    /\ out.op = "YCellLabel" /\ ~out.err
    /\ out.y = 0
    /\ ys.GraphHeight = 2
    /\ ys.Min.Value = Zero /\ ys.Max.Value = FromInt(MaxTallVal)
    /\ ys.Min.NonZeroDecimals = nonZeroDecimals
    /\ RLt(out.val.Value, ys.Max.Rounded)

\* C15 as stated: on a scale built from flat data (min = max, zero
\* included) yLabels, when it succeeds, returns exactly two labels: one of
\* value 0 on the row graphHeight - 1 and one of a larger value on a row
\* above.
C15_FlatDataTwoLabels ==
    (out.op = "yLabels" /\ ~out.err /\ out.min = out.max) =>
        /\ Len(out.labels) = 2
        /\ out.labels[1].Value.Value = Zero
        /\ out.labels[1].Pos.Y = ys.GraphHeight - 1
        /\ RLt(out.labels[1].Value.Value, out.labels[2].Value.Value)
        /\ out.labels[2].Pos.Y < out.labels[1].Pos.Y

\* The labels that rows labelSpacing apart give on graphHeight rows, two at
\* least.
RowsLabelled(graphHeight) ==
    LET n == ((graphHeight - 1) \div 4) + 1 IN IF n < 2 THEN 2 ELSE n

\* C15 amended: on a scale built from flat data min = max, yLabels, when it
\* succeeds, returns for min = max = 0 the single label 0 on the row
\* graphHeight - 1; for any other flat data it returns two labels at least
\* (exactly two up to 8 rows, one per 4 rows on taller graphs), the first
\* on the row graphHeight - 1 with the value Min.Rounded, which is 0 for
\* positive data and the data value for negative data, every next one on a
\* row above with a larger value.
C15_FlatData ==
    (out.op = "yLabels" /\ ~out.err /\ out.min = out.max) =>
        LET labels == out.labels IN
        IF out.min = Zero
        THEN /\ Len(labels) = 1
             /\ labels[1].Value.Value = Zero
             /\ labels[1].Pos.Y = ys.GraphHeight - 1
        ELSE /\ Len(labels) = RowsLabelled(ys.GraphHeight)
             /\ labels[1].Value.Value = ys.Min.Rounded
             /\ labels[1].Value.Value =
                  (IF RLt(Zero, out.min) THEN Zero
                   ELSE NewValue(out.min, ys.Min.NonZeroDecimals).Rounded)
             /\ labels[1].Pos.Y = ys.GraphHeight - 1
             /\ \A i \in 1 .. (Len(labels) - 1) :
                   /\ labels[i + 1].Pos.Y < labels[i].Pos.Y
                   /\ RLt(labels[i].Value.Value, labels[i + 1].Value.Value)

\* yLabels has returned two labels for flat positive data on two rows, the
\* second one above zero.
C15_Witness ==
    /\ out.op = "yLabels" /\ ~out.err
    /\ out.min = out.max /\ out.min = FromInt(MaxTallVal)
    /\ ys.GraphHeight = 2
    /\ Len(out.labels) = 2
    /\ RLt(Zero, out.labels[2].Value.Value)

\* What C17 says besides the alignment: yLabels fails exactly when
\* graphHeight < 2 or labelWidth < 1; the labels come bottom row first, the
\* first on the row graphHeight - 1, with strictly decreasing rows within
\* [0, graphHeight - 1], each with the value of its row.
YLabelsRows ==
    out.op = "yLabels" =>
        /\ out.err <=> (ys.GraphHeight < 2 \/ out.labelWidth < 1)
        /\ ~out.err =>
            /\ Len(out.labels) >= 1
            /\ out.labels[1].Pos.Y = ys.GraphHeight - 1
            /\ \A i \in 1 .. Len(out.labels) :
                  /\ out.labels[i].Pos.Y \in 0 .. (ys.GraphHeight - 1)
                  /\ out.labels[i].Value.Value =
                       ValueAtPosition(ys, (ys.GraphHeight - 1
                                            - out.labels[i].Pos.Y) * RowMult)
            /\ \A i \in 1 .. (Len(out.labels) - 1) :
                  out.labels[i + 1].Pos.Y < out.labels[i].Pos.Y

\* C17 as stated: every label of yLabels has Pos.X = labelWidth - len(text)
\* whatever the length of its text; the labels come bottom row first with
\* strictly decreasing rows within [0, graphHeight - 1]; yLabels fails when
\* graphHeight < 2 or labelWidth < 1.
C17_RightAlignedAnyLength ==
    /\ YLabelsRows
    /\ (out.op = "yLabels" /\ ~out.err) =>
          \A i \in 1 .. Len(out.labels) :
              out.labels[i].Pos.X =
                  out.labelWidth - LabelTextLen(out.labels[i])

\* C17 amended: every label of yLabels whose text is no longer than
\* labelWidth has Pos.X = labelWidth - len(text); a label whose text is
\* longer has Pos.X = 0; the labels come bottom row first with strictly
\* decreasing rows within [0, graphHeight - 1]; yLabels fails when
\* graphHeight < 2 or labelWidth < 1.
C17_RightAligned ==
    /\ YLabelsRows
    /\ (out.op = "yLabels" /\ ~out.err) =>
          \A i \in 1 .. Len(out.labels) :
              LET len == LabelTextLen(out.labels[i]) IN
              out.labels[i].Pos.X =
                  (IF len <= out.labelWidth THEN out.labelWidth - len ELSE 0)

\* yLabels has aligned three labels, the texts of two of them of four
\* characters, in a width of five.
C17_Witness ==
    /\ out.op = "yLabels" /\ ~out.err
    /\ out.labelWidth = 5
    /\ Len(out.labels) = 3
    /\ out.labels[1].Pos.X = 4
    /\ out.labels[2].Pos.X = 1
    /\ out.labels[3].Pos.X = 1

\* The cell of the index v, from the sub-cell column of XScale.ValueToPixel.
CellOfIndex(v) == XValueToPixel(xs, v).val \div 2

\* C18: in every label set of xLabels the first label is at
\* X = graphZero.X, Pos.X increases strictly, the spans
\* [Pos.X, Pos.X + len(text)) of consecutive labels are 3 cells apart at
\* least, every span ends at or before graphZero.X + GraphWidth, every
\* Pos.Y is graphZero.Y + 2; and where the cell of the index i is 3 cells
\* or more after the previous label, the label of i is on that cell.
C18_XLabelsSpans ==
    (out.op = "xLabels" /\ ~out.err) =>
        LET labels == out.labels
            zero   == out.graphZero
        IN  /\ Len(labels) >= 1 => labels[1].Pos.X = zero.X
            /\ \A i \in 1 .. Len(labels) :
                  /\ labels[i].Pos.Y = zero.Y + 2
                  /\ labels[i].Pos.X + LabelTextLen(labels[i])
                        <= zero.X + xs.GraphWidth
            /\ \A i \in 1 .. (Len(labels) - 1) :
                  /\ labels[i].Pos.X < labels[i + 1].Pos.X
                  /\ labels[i].Pos.X + LabelTextLen(labels[i]) + 3
                        <= labels[i + 1].Pos.X
            /\ \A i \in 2 .. Len(labels) :
                  LET prevEnd == labels[i - 1].Pos.X
                                   + LabelTextLen(labels[i - 1])
                  IN  zero.X + CellOfIndex(i - 1) - prevEnd >= 3 =>
                        /\ labels[i].Pos.X = zero.X + CellOfIndex(i - 1)
                        /\ ~labels[i].isText =>
                              labels[i].Value.Value = FromInt(i - 1)

\* xLabels has placed the labels of the indexes 1 and 2 on their cells,
\* right of a graphZero that is not the origin.
C18_Witness ==
    /\ out.op = "xLabels" /\ ~out.err
    /\ out.graphZero.X = 3
    /\ Len(out.labels) >= 3
    /\ out.labels[2].Pos.X = 3 + CellOfIndex(1)
    /\ out.labels[3].Pos.X = 3 + CellOfIndex(2)
    /\ out.labels[3].Pos.X - out.labels[2].Pos.X > 4

\* The custom labels without the one of the index.
WithoutIndex(customLabels, index) ==
    [i \in (DOMAIN customLabels) \ {index} |-> customLabels[i]]

C20_AtMostNumPoints ==
    out.op = "xLabels" =>
        /\ Len(out.labels) <= out.numPoints
        /\ out.numPoints = 1 =>
            /\ Len(out.labels) = 1
            /\ out.labels[1].Pos.X = out.graphZero.X
            /\ ~out.labels[1].isText => out.labels[1].Value.Value = Zero

\* C20 amended: xLabels returns at most numPoints labels for numPoints >= 1
\* and at most one for numPoints = 0; for numPoints <= 1 it returns exactly
\* one label, of the index 0 (the value 0 or the custom text of 0) at
\* graphZero.X, unless the custom text of 0 is longer than GraphWidth,
\* when it returns none.
C20_AtMostPoints ==
    out.op = "xLabels" =>
        /\ Len(out.labels) <= (IF out.numPoints = 0 THEN 1 ELSE out.numPoints)
        /\ out.numPoints <= 1 =>
            IF 0 \in DOMAIN out.customLabels
                /\ Len(out.customLabels[0]) > xs.GraphWidth
            THEN out.labels = <<>>
            ELSE /\ Len(out.labels) = 1
                 /\ out.labels[1].Pos.X = out.graphZero.X
                 /\ IF 0 \in DOMAIN out.customLabels
                    THEN out.labels[1].Value.text = out.customLabels[0]
                    ELSE out.labels[1].Value.Value = Zero

\* xLabels has returned two labels for two points in a width that has
\* room for three.
C20_Witness ==
    /\ out.op = "xLabels"
    /\ out.numPoints = 2
    /\ Len(out.labels) = 2
    /\ xs.GraphWidth >= 9

---------------------------------------------------------------------------
(* Properties of the multiplier of RoundToNonZeroPlaces.                   *)

\* x / 10 and x % 10 of a non-negative x, from the most significant byte.
RECURSIVE I64DivMod10From(_, _, _)
I64DivMod10From(x, i, rem) ==
    IF i < 1 THEN [q |-> <<>>, r |-> rem]
    ELSE LET rest == I64DivMod10From(x, i - 1, (rem * 256 + x[i]) % 10)
         IN  [q |-> Append(rest.q, (rem * 256 + x[i]) \div 10), r |-> rest.r]

\* x is 10^n.
RECURSIVE IsPowerOfTen(_, _)
IsPowerOfTen(x, n) ==
    IF n = 0 THEN x = I64(1)
    ELSE LET d == I64DivMod10From(x, 8, 0)
         IN  d.r = 0 /\ IsPowerOfTen(d.q, n - 1)

\* The part of C21 that holds: while k + |places| <= 18 the multiplier is
\* 10^(k + |places|), k = exp - 1 being the leading zero decimals.
MultiplierBelowWrap ==
    (out.op = "RoundMultiplier" /\ (out.exp - 1) + Abs(out.places) <= 18) =>
        /\ ~I64Negative(out.m)
        /\ IsPowerOfTen(out.m, (out.exp - 1) + Abs(out.places))

\* C21: for every non-zero v and every places, the multiplier
\* nzMult * 10^|places| that RoundToNonZeroPlaces computes in the 64-bit int
\* is the positive power of ten 10^(k + |places|): never zero, negative or
\* another number, however small the fraction and however large places.
C21_MultiplierIsPowerOfTen ==
    out.op = "RoundMultiplier" =>
        /\ ~I64Negative(out.m)
        /\ out.m # I64(0)
        /\ IsPowerOfTen(out.m, (out.exp - 1) + Abs(out.places))

---------------------------------------------------------------------------
(* Properties of the values along the X axis.                              *)

\* C22: on every valid X scale and for every cell x in [0, GraphWidth-1],
\* the value of XScale.CellLabel(x) is the index of a data point:
\* 0 <= CellLabel(x).Value <= numPoints - 1, which is Max.Value.
C22_CellLabelIsIndex ==
    (out.op = "XCellLabel" /\ ~out.err) =>
        /\ RLe(Zero, out.val.Value)
        /\ RLe(out.val.Value, xs.Max.Value)

---------------------------------------------------------------------------
(* Properties of PixelToValue along both axes.                             *)

\* The part of C23 that holds: no pixel maps to a value below Min.Rounded.
PixelToValueAboveMin ==
    /\ (out.op = "XPixelToValue" /\ ~out.err) => RLe(xs.Min.Rounded, out.val)
    /\ (out.op = "YPixelToValue" /\ ~out.err) => RLe(ys.Min.Rounded, out.val)

\* C23: PixelToValue is monotone along the axis and stays inside the
\* declared bounds. On a valid X scale a pixel further right never maps to a
\* smaller value; on a valid Y scale a higher position (smaller y) never maps
\* to a smaller value; no pixel maps to a value above Max.Rounded or below
\* Min.Rounded.
C23_PixelToValueMonotone ==
    /\ (out.op = "XPixelToValue" /\ ~out.err) =>
          /\ RLe(xs.Min.Rounded, out.val)
          /\ RLe(out.val, xs.Max.Rounded)
          /\ \A x2 \in (out.x + 1) .. (xs.brailleWidth - 1) :
                 RLe(out.val, XPixelToValue(xs, x2).val)
    /\ (out.op = "YPixelToValue" /\ ~out.err) =>
          /\ RLe(ys.Min.Rounded, out.val)
          /\ RLe(out.val, ys.Max.Rounded)
          /\ \A y2 \in (out.y + 1) .. (ys.brailleHeight - 1) :
                 RLe(YPixelToValue(ys, y2).val, out.val)

===========================================================================
